---- MODULE Spec2Model ----
(***************************************************************************)
(* weather_football_streamlit.py as a state machine.                       *)
(*                                                                         *)
(* The script is a Streamlit page: every user interaction sets the widget  *)
(* it touched, runs that widget's on_change callback (only the password    *)
(* input has one) and then executes the whole script from line 1.  One     *)
(* action of the model is therefore one interaction: widget value,         *)
(* callback and the complete script run.                                   *)
(*                                                                         *)
(* Numbers: the CSV holds floats; the model keeps integers and computes    *)
(* means and correlations exactly.  A mean is a reduced fraction           *)
(* [num, den]; a correlation r is kept as its sign and the reduced         *)
(* fraction r^2 (r -> sign(r) * r^2 is strictly increasing on [-1, 1], so  *)
(* order and equality of correlations are those of r); NaN is the record  *)
(* [nan |-> TRUE].  Floating-point rounding inside mean() and corr() is    *)
(* not modelled.                                                           *)
(*                                                                         *)
(* Of the script's four weather columns and eight match metrics the model  *)
(* keeps the first two of each list; the two display-option checkboxes of  *)
(* tab1 and tab2 only pick plotly styling arguments and are covered by     *)
(* the Rerun action.                                                       *)
(***************************************************************************)
EXTENDS Integers, Sequences, FiniteSets, TLC

VARIABLES
    csv_file,        \* contents of data/combined_match_stats_with_weather.csv
    session_state,   \* st.session_state: a function on the keys it holds
    widgets,         \* the values the page's keyless widgets hold
    secret_entered,  \* history: the secret was typed into this session's password input
    page             \* what the last script run computed and rendered

vars == <<csv_file, session_state, widgets, secret_entered, page>>

--------------------------------------------------------------------------
(* Bounds and input sets *)

MaxRows == 4

NaN == [nan |-> TRUE]
None == "None"

secret == "hunter2"
Passwords == {secret, "letmein", "p\\u00e4ss"}
IsAscii(s) == s # "p\\u00e4ss"

TeamOrder == <<"Arsenal", "Burnley">>
StrLess(a, b) ==
    \E i, j \in 1..Len(TeamOrder) : TeamOrder[i] = a /\ TeamOrder[j] = b /\ i < j

weather_values == <<"total_rainfall_amount_previous_hour", "wind_speed_10m">>
match_metrics == <<"team_match_directness", "team_match_pace_towards_goal">>

Range(s) == {s[i] : i \in DOMAIN s}

MatchRow(team, home, rain, wind, direct, pace) ==
    [team_name |-> team, home_team |-> home,
     total_rainfall_amount_previous_hour |-> rain, wind_speed_10m |-> wind,
     team_match_directness |-> direct, team_match_pace_towards_goal |-> pace]

RowPool ==
    << MatchRow("Burnley", "Burnley", 2, 2, 2, 1),
       MatchRow("Burnley", "Arsenal", 3, 3, 1, 1),
       MatchRow("Arsenal", "Arsenal", 2, -1, 1, 3),
       MatchRow("Arsenal", "Burnley", 3, 3, 3, 3),
       MatchRow("Arsenal", "Arsenal", 3, 0, 1, 2) >>

(* The files a session can start from: up to MaxRows pool rows, in pool     *)
(* order (Burnley's block first), in reverse order (Arsenal's block first), *)
(* or with the last row moved to the front (a team's rows not contiguous).  *)
Ascending(n) ==
    {s \in [1..n -> 1..Len(RowPool)] : \A i \in 1..(n - 1) : s[i] <= s[i + 1]}
Reverse(s) == [i \in 1..Len(s) |-> s[Len(s) + 1 - i]]
Rotate(s) == [i \in 1..Len(s) |-> IF i = 1 THEN s[Len(s)] ELSE s[i - 1]]
Rows(s) == [i \in 1..Len(s) |-> RowPool[s[i]]]

Tables ==
    UNION { UNION { {Rows(s), Rows(Reverse(s)), Rows(Rotate(s))} : s \in Ascending(n) } :
            n \in 0..MaxRows }

LimitInputs == {2, 10}

--------------------------------------------------------------------------
(* Exact arithmetic *)

Abs(x) == IF x < 0 THEN -x ELSE x
Sign(x) == IF x < 0 THEN -1 ELSE IF x > 0 THEN 1 ELSE 0

RECURSIVE Gcd(_, _)
Gcd(a, b) == IF b = 0 THEN a ELSE Gcd(b, a % b)

Frac(n, d) ==
    LET g == Gcd(Abs(n), d) IN [num |-> n \div g, den |-> d \div g]

RECURSIVE Sum(_)
Sum(s) == IF s = <<>> THEN 0 ELSE Head(s) + Sum(Tail(s))

Mul(x, y) == [i \in DOMAIN x |-> x[i] * y[i]]

--------------------------------------------------------------------------
(* pandas *)

Column(df, c) == [i \in 1..Len(df) |-> df[i][c]]

SetColumn(df, c, col) == [i \in 1..Len(df) |-> [df[i] EXCEPT ![c] = col[i]]]

clip_lower(col, upper) == [i \in DOMAIN col |-> IF col[i] < upper THEN upper ELSE col[i]]

clip(col, upper) == [i \in DOMAIN col |-> IF col[i] > upper THEN upper ELSE col[i]]

mean(col) == IF Len(col) = 0 THEN NaN ELSE Frac(Sum(col), Len(col))

RECURSIVE unique(_)
unique(col) ==
    IF col = <<>> THEN <<>>
    ELSE LET init == unique(SubSeq(col, 1, Len(col) - 1))
             last == col[Len(col)]
         IN  IF last \in Range(init) THEN init ELSE Append(init, last)

corr_zero(x, y) ==
    LET n  == Len(x)
        c  == n * Sum(Mul(x, y)) - Sum(x) * Sum(y)
        vx == n * Sum(Mul(x, x)) - Sum(x) * Sum(x)
        vy == n * Sum(Mul(y, y)) - Sum(y) * Sum(y)
    IN  IF n = 0 THEN NaN
        ELSE IF vx = 0 \/ vy = 0 THEN [sgn |-> 0, sq |-> Frac(0, 1)]
        ELSE [sgn |-> Sign(c), sq |-> Frac(c * c, vx * vy)]

corr(x, y) ==
    LET n  == Len(x)
        c  == n * Sum(Mul(x, y)) - Sum(x) * Sum(y)
        vx == n * Sum(Mul(x, x)) - Sum(x) * Sum(x)
        vy == n * Sum(Mul(y, y)) - Sum(y) * Sum(y)
    IN  IF n = 0 THEN NaN
        ELSE IF n < 2 THEN NaN
        ELSE IF vx = 0 \/ vy = 0 THEN NaN
        ELSE [sgn |-> Sign(c), sq |-> Frac(c * c, vx * vy)]

RECURSIVE MulDiv(_, _, _, _)
MulDiv(q, r, d, factors) ==
    IF factors = <<>> THEN q
    ELSE LET f == Head(factors)
         IN  MulDiv(f * q + (f * r) \div d, (f * r) % d, d, Tail(factors))

RECURSIVE IsqrtIn(_, _, _)
IsqrtIn(n, lo, hi) ==
    IF lo = hi THEN lo
    ELSE LET mid == (lo + hi + 1) \div 2
         IN  IF mid * mid <= n THEN IsqrtIn(n, mid, hi) ELSE IsqrtIn(n, lo, mid - 1)

(* round(r, 4), as an integer count of ten-thousandths: the nearest k to    *)
(* 10000 * |r| is the largest k with (2k - 1)^2 <= 4 * 10^8 * r^2.          *)
round4(r) ==
    IF r = NaN THEN NaN
    ELSE LET t == MulDiv(r.sq.num \div r.sq.den, r.sq.num % r.sq.den, r.sq.den,
                         <<100, 100, 100, 100, 4>>)
         IN  [e4 |-> r.sgn * ((IsqrtIn(t, 0, 20000) + 1) \div 2)]

Perms(n) == {p \in [1..n -> 1..n] : \A i, j \in 1..n : p[i] = p[j] => i = j}

Reorder(df, p) == [i \in 1..Len(df) |-> df[p[i]]]

CorrLeq(a, b) == a.sgn * a.sq.num * b.sq.den <= b.sgn * b.sq.num * a.sq.den

(* DataFrame.sort_values("team_name"): the default kind is quicksort, which *)
(* fixes no order among equal keys.                                         *)
sort_values_team_name(df) ==
    { Reorder(df, p) : p \in
        { p \in Perms(Len(df)) :
            \A i, j \in 1..Len(df) :
                i < j => ~StrLess(df[p[j]].team_name, df[p[i]].team_name) } }

(* DataFrame.sort_values("correlation"): numbers ascending, NaN rows last   *)
(* in their incoming order (na_position = "last").                          *)
sort_values_correlation(df) ==
    { Reorder(df, p) : p \in
        { p \in Perms(Len(df)) :
            \A i, j \in 1..Len(df) :
                i < j =>
                    LET a == df[p[i]].correlation
                        b == df[p[j]].correlation
                    IN  /\ a = NaN => b = NaN
                        /\ (a # NaN /\ b # NaN) => CorrLeq(a, b)
                        /\ (a = NaN /\ b = NaN) => p[i] < p[j] } }

(* pd.DataFrame(results): a frame built from an empty list has no columns *)
FrameColumns(results) == IF results = <<>> THEN {} ELSE DOMAIN results[1]

sorted(names) ==
    CHOOSE s \in [1..Len(names) -> Range(names)] :
        /\ Range(s) = Range(names)
        /\ \A i, j \in 1..Len(names) : i < j => ~StrLess(s[j], s[i])

--------------------------------------------------------------------------
(* st.session_state *)

Has(ss, k) == k \in DOMAIN ss
Get(ss, k, default) == IF Has(ss, k) THEN ss[k] ELSE default
Set(ss, k, v) == [x \in DOMAIN ss \cup {k} |-> IF x = k THEN v ELSE ss[x]]
Del(ss, k) == [x \in DOMAIN ss \ {k} |-> ss[x]]

EmptySession == [x \in {} |-> FALSE]

password_entered_any(ss) ==
    [ss |-> Del(Set(ss, "password_correct", TRUE), "password"), raised |-> FALSE]

(* password_entered: hmac.compare_digest raises TypeError on a str that is  *)
(* not ASCII; otherwise the flag is set and an accepted password deleted.   *)
password_entered(ss) ==
    IF ~IsAscii(ss["password"]) THEN [ss |-> ss, raised |-> TRUE]
    ELSE IF ss["password"] = secret
         THEN [ss |-> Del(Set(ss, "password_correct", TRUE), "password"),
               raised |-> FALSE]
         ELSE [ss |-> Set(ss, "password_correct", FALSE), raised |-> FALSE]

check_password_input_kept(ss) ==
    [ret |-> Get(ss, "password_correct", FALSE), password_input |-> TRUE,
     error |-> Has(ss, "password_correct") /\ ~Get(ss, "password_correct", FALSE),
     ss |-> IF Has(ss, "password") THEN ss ELSE Set(ss, "password", "")]

(* check_password: its return value, whether it rendered the text input     *)
(* and the error, and session state after it (a keyed widget that is        *)
(* rendered registers its value under its key).                             *)
check_password(ss) ==
    IF Get(ss, "password_correct", FALSE)
    THEN [ret |-> TRUE, password_input |-> FALSE, error |-> FALSE, ss |-> ss]
    ELSE [ret |-> FALSE, password_input |-> TRUE,
          error |-> Has(ss, "password_correct"),
          ss |-> IF Has(ss, "password") THEN ss ELSE Set(ss, "password", "")]

--------------------------------------------------------------------------
(* The script body after the password gate, lines 35-200 *)

DefaultWidgets ==
    [selected_weather_metric |-> weather_values[1],
     selected_match_metric |-> match_metrics[1],
     should_apply_weather_metric_upper_limit |-> FALSE,
     weather_metric_upper_limit |-> 10,
     selected_team_index |-> 0,
     sort_by_team_name |-> TRUE]

BlankPage ==
    [stage |-> "stopped", exception |-> None,
     password_input |-> FALSE, error_shown |-> FALSE, sidebar |-> FALSE,
     loaded |-> FALSE, combined_data |-> <<>>, long_data |-> <<>>,
     pearson |-> NaN,
     tab1 |-> [rows |-> <<>>, title_limit |-> <<>>],
     tab2 |-> [team |-> None, points |-> <<>>, title_limit |-> <<>>],
     tab3 |-> [rows |-> <<>>, hline |-> NaN, title_limit |-> <<>>],
     tab4 |-> [matches |-> <<>>, teams |-> <<>>]]

read_csv_cached(prev) == IF prev.loaded THEN prev.combined_data ELSE csv_file

(* line 45: every run reads the file again; prev is the table the previous  *)
(* run left behind, which nothing hands to this run.                        *)
read_csv(prev) == csv_file

apply_upper_limit_always(df, w) ==
    SetColumn(df, w.selected_weather_metric,
              clip(Column(df, w.selected_weather_metric), w.weather_metric_upper_limit))

(* lines 75-76 *)
apply_upper_limit(df, w) ==
    IF w.should_apply_weather_metric_upper_limit
    THEN SetColumn(df, w.selected_weather_metric,
                   clip(Column(df, w.selected_weather_metric),
                        w.weather_metric_upper_limit))
    ELSE df

(* lines 81-82 *)
average_weather_metric(df, w) == mean(Column(df, w.selected_weather_metric))
average_match_metric(df, w) == mean(Column(df, w.selected_weather_metric))

(* line 85: the rows of the mask, in table order *)
team_stats(df, team_name) ==
    LET Keep(r) == r.team_name = team_name IN SelectSeq(df, Keep)

team_names_per_row(df) == Column(df, "team_name")

team_names(df) == unique(Column(df, "team_name"))

(* lines 84-100 *)
results(df, w) ==
    LET swm == w.selected_weather_metric
        smm == w.selected_match_metric
        teams == team_names(df)
        avg_w == average_weather_metric(df, w)
        avg_m == average_match_metric(df, w)
    IN  [i \in 1..Len(teams) |->
            LET ts == team_stats(df, teams[i])
            IN  [team_name |-> teams[i],
                 weather_metric |-> swm,
                 match_metric |-> smm,
                 average_weather_metric |-> avg_w,
                 average_match_metric |-> avg_m,
                 team_average_match_metric |-> mean(Column(ts, smm)),
                 team_average_weather_metric |-> mean(Column(ts, swm)),
                 correlation |-> corr(Column(ts, swm), Column(ts, smm))]]

(* lines 104-107 without the sort: the rows of the chosen metric pair *)
filter_metrics(long_data, w) ==
    LET Keep(r) == /\ r.match_metric = w.selected_match_metric
                   /\ r.weather_metric = w.selected_weather_metric
    IN  SelectSeq(long_data, Keep)

(* line 109 *)
season_pearson(df, w) ==
    round4(corr(Column(df, w.selected_weather_metric),
                Column(df, w.selected_match_metric)))

title_limit(w) ==
    IF w.should_apply_weather_metric_upper_limit
    THEN <<w.weather_metric_upper_limit>> ELSE <<>>

(* line 135: the selectbox over sorted(unique team names), index 0 first;  *)
(* the widget is held as the index of the option chosen                    *)
selected_team_of(df, w) ==
    IF team_names(df) = <<>> THEN None
    ELSE sorted(team_names(df))[w.selected_team_index + 1]

(* lines 136-160 *)
per_match_points(df, w, team) ==
    LET ftd == team_stats(df, team)
    IN  [i \in 1..Len(ftd) |->
            [x |-> ftd[i][w.selected_weather_metric],
             y |-> ftd[i][w.selected_match_metric],
             home_away |-> IF ftd[i].home_team = team THEN "Home" ELSE "Away"]]

tab3_sort_swapped(filtered_metrics, w) ==
    IF w.sort_by_team_name THEN sort_values_correlation(filtered_metrics)
    ELSE sort_values_team_name(filtered_metrics)

(* lines 168-172 *)
tab3_sort(filtered_metrics, w) ==
    IF w.sort_by_team_name THEN sort_values_team_name(filtered_metrics)
    ELSE sort_values_correlation(filtered_metrics)

(* The page of a run that reaches line 200, given the two sorts' results *)
DonePage(w, combined_data, long_data, fm1, fm3) ==
    LET pearson == season_pearson(combined_data, w)
        team == selected_team_of(combined_data, w)
    IN
    [BlankPage EXCEPT
        !.stage = "done", !.sidebar = TRUE, !.loaded = TRUE,
        !.combined_data = combined_data,
        !.long_data = long_data,
        !.pearson = pearson,
        !.tab1 = [rows |-> fm1, title_limit |-> title_limit(w)],
        !.tab2 = [team |-> team,
                  points |-> per_match_points(combined_data, w, team),
                  title_limit |-> title_limit(w)],
        !.tab3 = [rows |-> fm3,
                  hline |-> pearson,
                  title_limit |-> title_limit(w)],
        !.tab4 = [matches |-> combined_data, teams |-> fm3]]

(* The pages a run of lines 35-200 can produce.  long_data['match_metric']  *)
(* on line 105 raises KeyError when the frame has no such column.           *)
Dashboard(w, prev) ==
    LET combined_data == apply_upper_limit(read_csv(prev), w)
        long_data == results(combined_data, w)
    IN  IF ~({"match_metric", "weather_metric"} \subseteq FrameColumns(long_data))
        THEN {[BlankPage EXCEPT !.stage = "raised", !.exception = "KeyError",
                                !.sidebar = TRUE, !.loaded = TRUE,
                                !.combined_data = combined_data,
                                !.long_data = long_data]}
        ELSE UNION { { DonePage(w, combined_data, long_data, fm1, fm3) :
                         fm3 \in tab3_sort(fm1, w) } :
                     fm1 \in sort_values_team_name(filter_metrics(long_data, w)) }

(* One execution of the script, lines 1-200, from session state ss *)
Script(ss, w, prev) ==
    LET gate == check_password(ss)
    IN  IF ~gate.ret
        THEN {[ss |-> gate.ss,
               page |-> [BlankPage EXCEPT !.password_input = gate.password_input,
                                          !.error_shown = gate.error]]}
        ELSE {[ss |-> gate.ss, page |-> pg] : pg \in Dashboard(w, prev)}

--------------------------------------------------------------------------
(* Sessions and interactions *)

Run(ss, w) ==
    \E out \in Script(ss, w, page) :
        /\ session_state' = out.ss
        /\ page' = out.page

Init ==
    /\ csv_file \in Tables
    /\ widgets = DefaultWidgets
    /\ secret_entered = FALSE
    /\ \E out \in Script(EmptySession, DefaultWidgets, BlankPage) :
        /\ session_state = out.ss
        /\ page = out.page

(* A browser opens the page: new session state, default widgets, first run *)
NewSession ==
    /\ widgets' = DefaultWidgets
    /\ secret_entered' = FALSE
    /\ Run(EmptySession, DefaultWidgets)
    /\ UNCHANGED csv_file

(* The user types p into the password input: the widget value is stored,   *)
(* password_entered runs, and the script runs unless the callback raised.   *)
EnterPassword(p) ==
    /\ page.password_input
    /\ p # Get(session_state, "password", "")
    /\ secret_entered' = (secret_entered \/ p = secret)
    /\ LET cb == password_entered(Set(session_state, "password", p))
       IN  IF cb.raised
           THEN /\ session_state' = cb.ss
                /\ page' = [BlankPage EXCEPT !.stage = "aborted",
                                             !.exception = "TypeError"]
           ELSE Run(cb.ss, widgets)
    /\ UNCHANGED <<csv_file, widgets>>

(* "Rerun", or a checkbox that only restyles a chart *)
Rerun ==
    /\ Run(session_state, widgets)
    /\ UNCHANGED <<csv_file, widgets, secret_entered>>

SetWidget(w) ==
    /\ w # widgets
    /\ widgets' = w
    /\ Run(session_state, w)
    /\ UNCHANGED <<csv_file, secret_entered>>

SelectWeatherMetric(v) ==
    /\ page.sidebar
    /\ SetWidget([widgets EXCEPT !.selected_weather_metric = v])

SelectMatchMetric(v) ==
    /\ page.sidebar
    /\ SetWidget([widgets EXCEPT !.selected_match_metric = v])

ToggleUpperLimit ==
    /\ page.sidebar
    /\ SetWidget([widgets EXCEPT !.should_apply_weather_metric_upper_limit = ~@])

(* the number input is disabled while the checkbox is clear *)
SetUpperLimit(n) ==
    /\ page.sidebar
    /\ widgets.should_apply_weather_metric_upper_limit
    /\ SetWidget([widgets EXCEPT !.weather_metric_upper_limit = n])

SelectTeam(i) ==
    /\ page.stage = "done"
    /\ i < Len(team_names(page.combined_data))
    /\ SetWidget([widgets EXCEPT !.selected_team_index = i])

ToggleSortByTeamName ==
    /\ page.stage = "done"
    /\ SetWidget([widgets EXCEPT !.sort_by_team_name = ~@])

Next ==
    \/ NewSession
    \/ \E p \in Passwords : EnterPassword(p)
    \/ Rerun
    \/ \E v \in Range(weather_values) : SelectWeatherMetric(v)
    \/ \E v \in Range(match_metrics) : SelectMatchMetric(v)
    \/ ToggleUpperLimit
    \/ \E n \in LimitInputs : SetUpperLimit(n)
    \/ \E i \in 0..(Len(TeamOrder) - 1) : SelectTeam(i)
    \/ ToggleSortByTeamName

Spec == Init /\ [][Next]_vars

--------------------------------------------------------------------------
(* Properties *)

Done == page.stage = "done"
Validated == Get(session_state, "password_correct", FALSE)
Rendered == page.loaded \/ page.sidebar \/ page.stage \in {"done", "raised"}

swm == widgets.selected_weather_metric
smm == widgets.selected_match_metric
Enabled == widgets.should_apply_weather_metric_upper_limit
Bound == widgets.weather_metric_upper_limit

FileTeams == {csv_file[i].team_name : i \in 1..Len(csv_file)}
TeamsIn(rows) == {rows[i].team_name : i \in 1..Len(rows)}
RowsOf(df, t) == {i \in 1..Len(df) : df[i].team_name = t}
IsMeanOf(f, col) == f # NaN /\ f.num * Len(col) = Sum(col) * f.den
Constant(df, idx, c) == \A i, j \in idx : df[i][c] = df[j][c]
OtherColumnsAsLoaded(df) ==
    \A i \in 1..Len(df) : \A c \in DOMAIN csv_file[i] \ {swm} : df[i][c] = csv_file[i][c]
ClippedAsStated(df) ==
    /\ Len(df) = Len(csv_file)
    /\ \A i \in 1..Len(df) :
        /\ (Enabled /\ csv_file[i][swm] > Bound) => df[i][swm] = Bound
        /\ (Enabled /\ csv_file[i][swm] <= Bound) => df[i][swm] = csv_file[i][swm]
        /\ ~Enabled => df[i][swm] = csv_file[i][swm]
    /\ OtherColumnsAsLoaded(df)
ByTeamName(rows) ==
    \A i, j \in 1..Len(rows) : i < j => StrLess(rows[i].team_name, rows[j].team_name)
ByCorrelation(rows) ==
    \A i, j \in 1..Len(rows) :
        i < j => \/ rows[j].correlation = NaN
                 \/ /\ rows[i].correlation # NaN
                    /\ CorrLeq(rows[i].correlation, rows[j].correlation)
SameRows(a, b) == Len(a) = Len(b) /\ Range(a) = Range(b)

(* C1: in every summary row the global weather average is the mean of the   *)
(* selected weather column over all rows and the global performance average *)
(* is the mean of the selected performance column over all rows, each       *)
(* computed from its own column.  The script fills average_match_metric     *)
(* from the weather column, so this fails.                                  *)
C1_GlobalAveragesFromOwnColumn ==
    page.loaded =>
        \A i \in 1..Len(page.long_data) :
            /\ IsMeanOf(page.long_data[i].average_weather_metric,
                        Column(page.combined_data, swm))
            /\ IsMeanOf(page.long_data[i].average_match_metric,
                        Column(page.combined_data, smm))

(* C2: a run over a non-empty table completes, and the team names of the    *)
(* summary table, of the rows of the season view, the correlation view and  *)
(* the Raw Data team table are exactly the distinct team names of the file, *)
(* one row per team.                                                        *)
C2_OneRowPerTeam ==
    (page.loaded /\ csv_file # <<>>) =>
        /\ Done
        /\ \A rows \in {page.long_data, page.tab1.rows, page.tab3.rows, page.tab4.teams} :
            /\ TeamsIn(rows) = FileTeams
            /\ Len(rows) = Cardinality(FileTeams)

C2_Witness ==
    /\ Done /\ Enabled
    /\ Len(csv_file) = MaxRows
    /\ Cardinality(FileTeams) = 2
    /\ csv_file[1].team_name = csv_file[3].team_name
    /\ csv_file[1].team_name # csv_file[2].team_name

C4_ClipUpper ==
    page.loaded => ClippedAsStated(page.combined_data)

C4_Witness ==
    /\ page.loaded /\ Enabled
    /\ \E i, j \in 1..Len(csv_file) :
        /\ csv_file[i][swm] > Bound
        /\ csv_file[j][swm] < Bound
        /\ page.combined_data[i][swm] = Bound

SameSelections ==
    {[widgets EXCEPT !.sort_by_team_name = s, !.selected_team_index = t] :
        s \in BOOLEAN, t \in {0, widgets.selected_team_index}}

C6_NoStateBetweenRuns ==
    page.loaded =>
        \A w \in SameSelections :
            \E fresh \in Dashboard(w, BlankPage) :
                /\ fresh.long_data = page.long_data
                /\ fresh.pearson = page.pearson
                /\ fresh.exception = page.exception

C6_Witness ==
    /\ Done
    /\ ~Enabled /\ Bound # DefaultWidgets.weather_metric_upper_limit
    /\ swm # DefaultWidgets.selected_weather_metric
    /\ ~widgets.sort_by_team_name
    /\ \E i \in 1..Len(csv_file) : csv_file[i][swm] > Bound
    /\ page.pearson # NaN

(* C7: a run over an empty table completes without an error and yields an   *)
(* empty summary.  The script raises KeyError on line 105.                  *)
C7_EmptyTableNoError ==
    (page.loaded /\ csv_file = <<>>) =>
        /\ page.exception = None
        /\ Done
        /\ page.long_data = <<>>
        /\ page.tab3.rows = <<>>

(* C8, as claimed: the season view and the correlation view both show the   *)
(* summary rows by team name when "Sort by team name" is checked and        *)
(* ascending by correlation otherwise.                                      *)
C8_BothViewsFollowSortChoice ==
    Done =>
        \A rows \in {page.tab1.rows, page.tab3.rows} :
            /\ SameRows(rows, page.long_data)
            /\ widgets.sort_by_team_name => ByTeamName(rows)
            /\ ~widgets.sort_by_team_name => ByCorrelation(rows)

(* C8, amended: the correlation view (and the Raw Data team table) shows    *)
(* the summary rows by team name when the box is checked and otherwise      *)
(* ascending by correlation with undefined correlations last; the choice    *)
(* changes the order only, never the rows; the season view always shows     *)
(* them by team name.                                                       *)
C8_CorrelationViewFollowsSortChoice ==
    Done =>
        /\ SameRows(page.tab3.rows, page.long_data)
        /\ SameRows(page.tab1.rows, page.long_data)
        /\ page.tab4.teams = page.tab3.rows
        /\ ByTeamName(page.tab1.rows)
        /\ widgets.sort_by_team_name => ByTeamName(page.tab3.rows)
        /\ ~widgets.sort_by_team_name => ByCorrelation(page.tab3.rows)

C8_Witness ==
    /\ Done /\ ~widgets.sort_by_team_name
    /\ Len(page.tab3.rows) = 2
    /\ page.tab3.rows[1].correlation # NaN
    /\ page.tab3.rows[2].correlation # NaN
    /\ page.tab3.rows[1].correlation # page.tab3.rows[2].correlation
    /\ page.tab3.rows # page.tab1.rows

(* C9: the file is loaded and dashboard content rendered only in a run that *)
(* starts with password_correct True; the flag is True only if the secret   *)
(* was typed earlier in the session; a run stopped at the gate shows no     *)
(* dashboard content.                                                       *)
C9_PasswordGate ==
    /\ Rendered => Validated
    /\ Validated => secret_entered
    /\ page.stage \in {"stopped", "aborted"} =>
        /\ ~Rendered
        /\ page.combined_data = <<>> /\ page.long_data = <<>>
        /\ page.tab1.rows = <<>> /\ page.tab2.points = <<>>
        /\ page.tab3.rows = <<>> /\ page.tab4.matches = <<>>
    /\ ~Validated => page.stage \in {"stopped", "aborted"}

C9_Witness ==
    /\ Done /\ Validated
    /\ page.tab4.matches # <<>>

(* C10: whenever password_correct is True session state holds no password   *)
(* entry and the password input is not on the page, and the flag stays      *)
(* True through every later run of the session.                             *)
C10_PasswordNotKept ==
    [][ /\ Validated' => (~Has(session_state', "password") /\ ~page'.password_input)
        /\ (Validated /\ secret_entered') => Validated' ]_vars

C10_Witness ==
    /\ Validated /\ Done
    /\ ~Has(session_state, "password")
    /\ widgets # DefaultWidgets

====
